---------------------------- MODULE Spec2Model ----------------------------
(***************************************************************************)
(* A model of torrust's SOCKS5-over-TLS dispatcher (src/src/proxy.rs):     *)
(* the accept loop of start_socks_server, the per-connection state machine *)
(* of handle_socks_connection, and the isolation registry                  *)
(* (Arc<Mutex<HashMap<u64, IsolationToken>>>) the sessions share.          *)
(*                                                                         *)
(* A session's position (pc) is the await point its task is suspended at.  *)
(* Every read draws the bytes the client sends from a small set, may fail  *)
(* (EOF, reset) and, inside the handshake future, may be cancelled by the  *)
(* 10 s timer.  Bytes are numbers 0..255, buffers are sequences of bytes.  *)
(***************************************************************************)
EXTENDS Integers, Sequences, FiniteSets, TLC

\* ------------------------------------------------------------------------
\* Bounds of the model
\* ------------------------------------------------------------------------

\* Number of connections the accept loop hands to dispatcher tasks.
NumSessions == 2

\* Largest NMETHODS a client sends in the greeting.
MaxMethods == 2

\* Largest ULEN / PLEN / domain length a client sends.
MaxFieldLen == 1

\* Seconds the clock of a session is followed past its start.
MaxElapsed == 12

\* Length of the buffer of a copy direction (8192 in proxy.rs 282, scaled
\* down) and the largest payload a direction carries before EOF.
BufLen == 2

MaxPayload == 3

\* Largest of the small message lengths a DNS frame announces.
MaxDnsLen == 2

\* ------------------------------------------------------------------------
\* Program constants
\* ------------------------------------------------------------------------

\* timeout(Duration::from_secs(10), ...)
HANDSHAKE_TIMEOUT == 10

\* The size the insert path tests: `if map.len() > 1000 { map.clear(); }`
MAX_ISOLATION_ENTRIES == 1000

Sessions == 1 .. NumSessions

\* ------------------------------------------------------------------------
\* Bytes a client may send
\* ------------------------------------------------------------------------

\* VER of the greeting and of the request: 0x05, or something else.
Versions == {5, 4}

\* Method bytes offered: no-auth, GSSAPI, user/pass.
MethodBytes == {0, 1, 2}

\* CMD of the request: CONNECT, BIND.
Commands == {1, 2}

\* ATYP of the request: IPv4, DOMAINNAME, IPv6, and an unassigned value.
AddrTypes == {1, 3, 4, 9}

\* Bytes of user names and passwords ("a").
CredBytes == {97}

\* Bytes of domain names: "a", and two bytes that never occur in UTF-8.
DomainBytes == {97, 254, 255}

\* IPv4 addresses.
Ipv4Addrs == {<<10, 0, 0, 1>>}

\* Port bytes, big endian (443).
PortBytes == {<<1, 187>>}

\* Relayed payloads: 01, 01 02, 01 02 03, ... and the empty one; no byte
\* is zero and no two bytes of a payload are equal.
Payloads == {[i \in 1 .. k |-> i] : k \in 0 .. MaxPayload}

\* All byte strings over `bytes` of length exactly n / at most n.
RECURSIVE SeqsOfLen(_, _)
SeqsOfLen(bytes, n) ==
    IF n = 0 THEN {<< >>}
    ELSE {<<b>> \o t : b \in bytes, t \in SeqsOfLen(bytes, n - 1)}

SeqsUpTo(bytes, n) == UNION {SeqsOfLen(bytes, k) : k \in 0 .. n}

\* vec![0u8; n], and what zeroize() leaves of a Vec<u8> or an array.
Zeros(n) == [i \in 1 .. n |-> 0]

\* Absent values: Option::None of cred_hash, no isolation key, no token yet.
NoCred == -1
NoKey == -1
NoToken == -1

\* ------------------------------------------------------------------------
\* Pure functions of the dispatcher
\* ------------------------------------------------------------------------

\* Method selection, proxy.rs 106-113: 0x02 if offered, else 0x00 if
\* offered, else 0xFF.
ChooseMethodNoAuthFirst(m) ==
    IF \E i \in 1 .. Len(m) : m[i] = 0 THEN 0
    ELSE IF \E i \in 1 .. Len(m) : m[i] = 2 THEN 2
    ELSE 255

ChooseMethod(m) ==
    IF \E i \in 1 .. Len(m) : m[i] = 2 THEN 2
    ELSE IF \E i \in 1 .. Len(m) : m[i] = 0 THEN 0
    ELSE 255

\* The request header test, proxy.rs 160: VER = 5 and CMD = CONNECT.
ValidRequest(ver, cmd) == ver = 5 /\ cmd = 1

\* The arms of `match addr_type`, proxy.rs 168-196: 0x01 and 0x03 parse,
\* every other value is "Unsupported SOCKS address type".
SupportedAddrType(atyp) == atyp \in {1, 3}

\* u16::from_be_bytes
PortFromBe(pb) == pb[1] * 256 + pb[2]

\* Decimal digits of a byte, as ASCII (u8's Display).
RECURSIVE Dec(_)
Dec(n) == IF n < 10 THEN <<48 + n>> ELSE Dec(n \div 10) \o <<48 + (n % 10)>>

\* IpAddr::from([u8; 4]).to_string(): dotted decimal.
Ipv4ToString(a) ==
    Dec(a[1]) \o <<46>> \o Dec(a[2]) \o <<46>> \o Dec(a[3]) \o <<46>> \o Dec(a[4])

\* String::from_utf8_lossy(..).into_owned(), for the bytes of DomainBytes:
\* an ASCII byte is kept, a byte that cannot occur in UTF-8 (0xFE, 0xFF, and
\* any lone byte >= 0x80) becomes U+FFFD, that is EF BF BD.
RECURSIVE FromUtf8Lossy(_)
FromUtf8Lossy(b) ==
    IF b = << >> THEN << >>
    ELSE (IF Head(b) < 128 THEN <<Head(b)>> ELSE <<239, 191, 189>>)
         \o FromUtf8Lossy(Tail(b))

\* DefaultHasher::new() ... finish(): SipHash-1-3 with the fixed key (0, 0),
\* a deterministic function of the bytes written to it.  It is modelled by a
\* deterministic fold over the same byte stream; the fold has no collision
\* on the inputs of this model (HashInjective below).
RECURSIVE HashFold(_, _)
HashFold(h, bytes) ==
    IF bytes = << >> THEN h
    ELSE HashFold((h * 31 + Head(bytes) + 1) % 1000003, Tail(bytes))

\* uname.hash(h); passwd.hash(h): Vec<u8> writes its length, then its bytes.
CredHash(u, pw) == HashFold(7, <<Len(u)>> \o u \o <<Len(pw)>> \o pw)

\* host.hash(h): String writes its bytes, then 0xFF.
HostHash(h) == HashFold(7, h \o <<255>>)

\* The isolation key of a session, proxy.rs 216-243: the credential hash if
\* there is one, else the host hash if auto_isolate, else none (the default
\* token is used).
IsolationKeyHostFirst(ch, h, auto) ==
    IF auto THEN HostHash(h)
    ELSE IF ch # NoCred THEN ch
    ELSE NoKey

IsolationKey(ch, h, auto) ==
    IF ch # NoCred THEN ch
    ELSE IF auto THEN HostHash(h)
    ELSE NoKey

\* `if map.len() > 1000`, proxy.rs 220 and 234.
ShouldClear(n) == n > MAX_ISOLATION_ENTRIES

\* map.entry(key).or_insert_with(IsolationToken::new).clone(), proxy.rs 223
\* and 237, on map m with `fresh` the token IsolationToken::new() would
\* return: the map afterwards and the token cloned out of it.
EntryOrInsertAlwaysNew(m, key, fresh) ==
    [map |-> [k \in DOMAIN m \cup {key} |-> IF k = key THEN fresh ELSE m[k]],
     token |-> fresh,
     created |-> TRUE]

EntryOrInsertDefault(m, key, fresh) ==
    IF key \in DOMAIN m
    THEN [map |-> m, token |-> m[key], created |-> FALSE]
    ELSE [map |-> [k \in DOMAIN m \cup {key} |-> IF k = key THEN 0 ELSE m[k]],
          token |-> 0,
          created |-> FALSE]

EntryOrInsertNoStore(m, key, fresh) ==
    IF key \in DOMAIN m
    THEN [map |-> m, token |-> m[key], created |-> FALSE]
    ELSE [map |-> m, token |-> fresh, created |-> TRUE]

EntryOrInsert(m, key, fresh) ==
    IF key \in DOMAIN m
    THEN [map |-> m, token |-> m[key], created |-> FALSE]
    ELSE [map |-> [k \in DOMAIN m \cup {key} |-> IF k = key THEN fresh ELSE m[k]],
          token |-> fresh,
          created |-> TRUE]

\* reply_failure, proxy.rs 297-301
ReplyFailureSpecific == <<5, 4, 0, 1, 0, 0, 0, 0, 0, 0>>

ReplyFailureBytes == <<5, 1, 0, 1, 0, 0, 0, 0, 0, 0>>

\* The success reply, proxy.rs 262
SuccessReplyBytes == <<5, 0, 0, 1, 0, 0, 0, 0, 0, 0>>

\* Where the session goes once the handshake future has returned, proxy.rs
\* 202-214: on to token selection, or to reply_failure and return.
AfterHandshakeFallThrough(result) == "select"

AfterHandshake(result) == IF result = "ok" THEN "select" ELSE "fail_reply"

\* ------------------------------------------------------------------------
\* State
\* ------------------------------------------------------------------------

VARIABLES
    \* per session (functions over Sessions)
    pc,                 \* the await point the dispatcher task is at
    elapsed,            \* seconds since handle_socks_connection started
    out,                \* bytes the client has received from the dispatcher
    nmethods,           \* header[1] as usize
    methods,            \* the methods buffer
    auth_method,        \* the method selected, 0xFF at first
    ulen, uname,        \* auth_ver[1] as usize, the user name buffer
    plen, passwd,       \* plen_buf[0] as usize, the password buffer
    presented,          \* the <<uname, passwd>> the client sent, or << >>
    cred_hash,          \* Option<u64>
    addr_type,          \* req[3]
    addr,               \* the IPv4 address buffer
    dlen, domain_bytes, \* len[0] as usize, the domain name buffer
    host, port,         \* the destination handed to the overlay
    handshake_result,   \* what timeout(..).await returned
    stream_token,       \* the isolation token set in the stream prefs
    tor_stream_result,  \* what connect_with_prefs returned
    registry_locks,     \* how often the task locked the isolation map
    connects,           \* how often the task called connect_with_prefs
    tor_target,         \* the <<host, port>> the overlay was asked for
    lookup_epoch,       \* the value of `clears` when the token was taken
    \* shared
    auto_isolate,       \* cfg.auto_isolate_domains
    isolation_map,      \* the entries under the keys of these sessions
    other_entries,      \* the number of entries under other keys
    lock_owner,         \* the session holding the map's mutex, or 0
    next_token,         \* the token IsolationToken::new() returns next
    clears,             \* how often map.clear() ran
    listening,          \* the accept loop of start_socks_server runs
    \* the splice of a relaying session (functions over Dirs)
    copy_pc,            \* where each zeroizing_copy future is
    buf,                \* its buffer
    nread,              \* n, the length of the chunk in the buffer
    src,                \* what its reader has yet to deliver before EOF
    taken,              \* what it has read from its reader so far
    dst,                \* what its writer has accepted so far
    writer_ok,          \* no write of the direction has failed so far
    \* the process, main.rs
    main_pc,            \* where main() is
    exit_code,          \* the exit status of the process, or NotExited
    probe_result,       \* what the self-check connect returned, or "none"
    spawned,            \* the service tasks main() has spawned
    selfcheck,          \* args.selfcheck
    strict_mode,        \* cfg.strict_mode
    chaff_enabled,      \* cfg.chaff_enabled
    euid_root,          \* geteuid() == 0
    step_result,        \* what each start-up step of main() returned
    \* one connection of the DNS forwarder, dns.rs
    dns                 \* the locals and streams of handle_dns_connection

ioVars == <<pc, elapsed, out>>
greetVars == <<nmethods, methods, auth_method>>
authVars == <<ulen, uname, plen, passwd, presented, cred_hash>>
reqVars == <<addr_type, addr, dlen, domain_bytes, host, port>>
resVars == <<handshake_result, stream_token, tor_stream_result,
             registry_locks, connects, tor_target, lookup_epoch>>
mapVars == <<auto_isolate, isolation_map, other_entries, lock_owner,
             next_token, clears, listening>>

relayVars == <<copy_pc, buf, nread, src, taken, dst, writer_ok>>
mainVars == <<main_pc, exit_code, probe_result, spawned, selfcheck,
              strict_mode, chaff_enabled, euid_root, step_result>>
sessionVars == <<ioVars, greetVars, authVars, reqVars, resVars, mapVars>>
dnsVars == <<dns>>
vars == <<sessionVars, relayVars, mainVars, dnsVars>>

\* The two directions of the splice, proxy.rs 268-271: client to overlay
\* (cr, tw) and overlay to client (tr, cw).
Dirs == {"up", "down"}

Other(d) == IF d = "up" THEN "down" ELSE "up"

\* No exit status yet.
NotExited == -1

\* No session is relaying: there are no copy futures, and no direction has
\* a buffer or a stream.
NoSplice ==
    /\ copy_pc = << >>
    /\ buf = << >>
    /\ nread = << >>
    /\ src = << >>
    /\ taken = << >>
    /\ dst = << >>
    /\ writer_ok = << >>

\* handle_dns_connection at `at`, with its locals as they are declared
\* (len_buf and resp_len_buf are [0u8; 2]) and nothing read or written.
\* query and produced are the frames the client sent and the resolver
\* produced, tor_out and client_out what the two streams have accepted,
\* io_failed whether a read, a write or the connects returned an error.
DnsLocals(at) ==
    [pc |-> at, len_buf |-> <<0, 0>>, msg_len |-> 0, dns_msg |-> << >>,
     resolver |-> "none", resp_len_buf |-> <<0, 0>>, resp_len |-> 0,
     resp |-> << >>, query |-> << >>, produced |-> << >>,
     tor_out |-> << >>, client_out |-> << >>, io_failed |-> FALSE]

\* No connection of the DNS forwarder is open: there is no task and there
\* are no locals.
NoDnsConnection == dns = [pc |-> "none"]

\* The start-up steps of main() that can fail: apply_protections(true) and
\* the geteuid() test of strict mode, the directories and the
\* TorClientConfig, TorClient::create_bootstrapped.
StartupSteps == {"harden", "nonroot", "configure", "bootstrap"}

\* The process is past its start-up with the services running: main() waits
\* for the shutdown signal, main.rs 192.
ServicesRunning ==
    /\ main_pc = "wait_signal"
    /\ exit_code = NotExited
    /\ probe_result = "none"
    /\ spawned = {"socks", "dns"}
    /\ selfcheck = FALSE
    /\ strict_mode = FALSE
    /\ chaff_enabled = FALSE
    /\ euid_root = FALSE
    /\ step_result = [k \in StartupSteps |->
                        IF k \in {"configure", "bootstrap"} THEN "ok"
                        ELSE "none"]

\* The default token, IsolationToken::new() of proxy.rs 53: the first token
\* the process creates.
DefaultToken == 0

\* map.len()
RegistryLen == Cardinality(DOMAIN isolation_map) + other_entries

\* The registry sizes a run starts from: the empty map of a fresh process,
\* and a map that earlier sessions, each with credentials of its own, have
\* filled to the size the insert path tests.  Those sessions' tokens are
\* 1 .. other_entries.
StartSizes == {0, MAX_ISOLATION_ENTRIES}

\* The local variables of the handshake future, as the future starts.
FreshLocals(s) ==
    /\ nmethods' = [nmethods EXCEPT ![s] = 0]
    /\ methods' = [methods EXCEPT ![s] = << >>]
    /\ auth_method' = [auth_method EXCEPT ![s] = 255]
    /\ ulen' = [ulen EXCEPT ![s] = 0]
    /\ uname' = [uname EXCEPT ![s] = << >>]
    /\ plen' = [plen EXCEPT ![s] = 0]
    /\ passwd' = [passwd EXCEPT ![s] = << >>]
    /\ addr_type' = [addr_type EXCEPT ![s] = 0]
    /\ addr' = [addr EXCEPT ![s] = << >>]
    /\ dlen' = [dlen EXCEPT ![s] = 0]
    /\ domain_bytes' = [domain_bytes EXCEPT ![s] = << >>]

\* No connection accepted yet, the registry as start_socks_server makes it
\* (proxy.rs 52-53) or as earlier connections left it.
SessionsIdle ==
    /\ pc = [s \in Sessions |-> "idle"]
    /\ elapsed = [s \in Sessions |-> 0]
    /\ out = [s \in Sessions |-> << >>]
    /\ nmethods = [s \in Sessions |-> 0]
    /\ methods = [s \in Sessions |-> << >>]
    /\ auth_method = [s \in Sessions |-> 255]
    /\ ulen = [s \in Sessions |-> 0]
    /\ uname = [s \in Sessions |-> << >>]
    /\ plen = [s \in Sessions |-> 0]
    /\ passwd = [s \in Sessions |-> << >>]
    /\ presented = [s \in Sessions |-> << >>]
    /\ cred_hash = [s \in Sessions |-> NoCred]
    /\ addr_type = [s \in Sessions |-> 0]
    /\ addr = [s \in Sessions |-> << >>]
    /\ dlen = [s \in Sessions |-> 0]
    /\ domain_bytes = [s \in Sessions |-> << >>]
    /\ host = [s \in Sessions |-> << >>]
    /\ port = [s \in Sessions |-> 0]
    /\ handshake_result = [s \in Sessions |-> "pending"]
    /\ stream_token = [s \in Sessions |-> NoToken]
    /\ tor_stream_result = [s \in Sessions |-> "none"]
    /\ registry_locks = [s \in Sessions |-> 0]
    /\ connects = [s \in Sessions |-> 0]
    /\ tor_target = [s \in Sessions |-> << >>]
    /\ lookup_epoch = [s \in Sessions |-> 0]
    /\ auto_isolate \in BOOLEAN
    /\ isolation_map = << >>
    /\ other_entries \in StartSizes
    /\ lock_owner = 0
    /\ next_token = other_entries + 1
    /\ clears = 0

Init ==
    /\ SessionsIdle
    /\ listening = TRUE
    /\ NoSplice
    /\ ServicesRunning
    /\ NoDnsConnection

\* ------------------------------------------------------------------------
\* The accept loop, proxy.rs 57-78
\* ------------------------------------------------------------------------

\* listener.accept(), tokio::spawn, acceptor.accept(socket) succeeds: the
\* task enters handle_socks_connection and awaits the first read.
Accept(s) ==
    /\ listening
    /\ pc[s] = "idle"
    /\ pc' = [pc EXCEPT ![s] = "read_header"]
    /\ UNCHANGED <<elapsed, out, greetVars, authVars, reqVars, resVars,
                   mapVars>>

\* The error of the TLS accept returned out of the accept loop.
TlsHandshakeFailedPropagates(s) ==
    /\ listening
    /\ pc[s] = "idle"
    /\ pc' = [pc EXCEPT ![s] = "closed"]
    /\ listening' = FALSE
    /\ UNCHANGED <<elapsed, out, greetVars, authVars, reqVars, resVars,
                   auto_isolate, isolation_map, other_entries, lock_owner,
                   next_token, clears>>

\* 70-76: acceptor.accept(socket) fails inside the spawned task: the task
\* logs and ends.
TlsHandshakeFailed(s) ==
    /\ listening
    /\ pc[s] = "idle"
    /\ pc' = [pc EXCEPT ![s] = "closed"]
    /\ UNCHANGED <<elapsed, out, greetVars, authVars, reqVars, resVars,
                   mapVars>>

\* 58: listener.accept().await? fails: start_socks_server returns the
\* error and the loop is over; the tasks spawned before run on.
AcceptError ==
    /\ listening
    /\ listening' = FALSE
    /\ UNCHANGED <<ioVars, greetVars, authVars, reqVars, resVars,
                   auto_isolate, isolation_map, other_entries, lock_owner,
                   next_token, clears>>

\* ------------------------------------------------------------------------
\* The handshake future, proxy.rs 91-200
\* ------------------------------------------------------------------------

\* The await points of the handshake future whose error is propagated by
\* `?` or `.context(..)?`.
PropagatingAwaits ==
    {"read_header", "read_methods", "write_method", "read_auth_ver",
     "read_uname", "read_plen", "read_passwd", "write_auth_reply",
     "read_req", "read_addr", "read_len", "read_domain", "read_port"}

\* All await points inside timeout(..): the timer can cancel any of them.
HandshakeAwaits == PropagatingAwaits \cup {"write_no_method"}

\* timeout(..).await returns `result` with the client having received
\* `sent`: the locals of the future are dropped and the match of proxy.rs
\* 202-214 runs.  Only Ok(Ok(..)) hands cred_hash, host and port on (pres
\* are the credentials behind cred_hash).
HandshakeReturns(s, result, sent, pres, ch, h, pt) ==
    /\ handshake_result' = [handshake_result EXCEPT ![s] = result]
    /\ pc' = [pc EXCEPT ![s] = AfterHandshake(result)]
    /\ out' = [out EXCEPT ![s] = sent]
    /\ presented' = [presented EXCEPT ![s] = pres]
    /\ cred_hash' = [cred_hash EXCEPT ![s] = ch]
    /\ host' = [host EXCEPT ![s] = h]
    /\ port' = [port EXCEPT ![s] = pt]
    /\ FreshLocals(s)
    /\ UNCHANGED <<stream_token, tor_stream_result, registry_locks, connects,
                   tor_target, lookup_epoch, mapVars>>

HandshakeFails(s, result, sent) ==
    /\ HandshakeReturns(s, result, sent, << >>, NoCred, << >>, 0)
    /\ UNCHANGED elapsed

\* 92-101: read the 2-byte header, test the version, keep NMETHODS.
ReadHeader(s) ==
    /\ pc[s] = "read_header"
    /\ \E ver \in Versions, n \in 0 .. MaxMethods :
         IF ver # 5
         THEN HandshakeFails(s, "error", out[s])
         ELSE /\ nmethods' = [nmethods EXCEPT ![s] = n]
              /\ methods' = [methods EXCEPT ![s] = Zeros(n)]
              /\ pc' = [pc EXCEPT ![s] = "read_methods"]
              /\ UNCHANGED <<elapsed, out, auth_method, authVars, reqVars,
                             resVars, mapVars>>

\* 104: read_exact fills the methods buffer.
ReadMethods(s) ==
    /\ pc[s] = "read_methods"
    /\ \E m \in SeqsOfLen(MethodBytes, nmethods[s]) :
         methods' = [methods EXCEPT ![s] = m]
    /\ pc' = [pc EXCEPT ![s] = "select_method"]
    /\ UNCHANGED <<elapsed, out, nmethods, auth_method, authVars, reqVars,
                   resVars, mapVars>>

\* 106-121: select the method, zeroize the buffer, go on to write the reply.
SelectMethod(s) ==
    /\ pc[s] = "select_method"
    /\ auth_method' = [auth_method EXCEPT ![s] = ChooseMethod(methods[s])]
    /\ methods' = [methods EXCEPT ![s] = Zeros(Len(methods[s]))]
    /\ pc' = [pc EXCEPT ![s] =
                IF auth_method'[s] = 255 THEN "write_no_method"
                ELSE "write_method"]
    /\ UNCHANGED <<elapsed, out, nmethods, authVars, reqVars, resVars,
                   mapVars>>

\* 117-119: write 05 FF (an error of the write is dropped), return Err.
WriteNoMethod(s) ==
    /\ pc[s] = "write_no_method"
    /\ \/ HandshakeFails(s, "error", out[s] \o <<5, 255>>)
       \/ HandshakeFails(s, "error", out[s])

\* 123-128: write 05 <method>, then sub-negotiate or read the request.
WriteMethod(s) ==
    /\ pc[s] = "write_method"
    /\ out' = [out EXCEPT ![s] = @ \o <<5, auth_method[s]>>]
    /\ pc' = [pc EXCEPT ![s] =
                IF auth_method[s] = 2 THEN "read_auth_ver" ELSE "read_req"]
    /\ UNCHANGED <<elapsed, greetVars, authVars, reqVars, resVars, mapVars>>

\* 129-133: read VER and ULEN of the sub-negotiation (VER is not tested).
ReadAuthVer(s) ==
    /\ pc[s] = "read_auth_ver"
    /\ \E ul \in 0 .. MaxFieldLen :
         /\ ulen' = [ulen EXCEPT ![s] = ul]
         /\ uname' = [uname EXCEPT ![s] = Zeros(ul)]
    /\ pc' = [pc EXCEPT ![s] = "read_uname"]
    /\ UNCHANGED <<elapsed, out, greetVars, plen, passwd, presented,
                   cred_hash, reqVars, resVars, mapVars>>

\* 134
ReadUname(s) ==
    /\ pc[s] = "read_uname"
    /\ \E u \in SeqsOfLen(CredBytes, ulen[s]) :
         uname' = [uname EXCEPT ![s] = u]
    /\ pc' = [pc EXCEPT ![s] = "read_plen"]
    /\ UNCHANGED <<elapsed, out, greetVars, ulen, plen, passwd, presented,
                   cred_hash, reqVars, resVars, mapVars>>

\* 136-140
ReadPlen(s) ==
    /\ pc[s] = "read_plen"
    /\ \E pl \in 0 .. MaxFieldLen :
         /\ plen' = [plen EXCEPT ![s] = pl]
         /\ passwd' = [passwd EXCEPT ![s] = Zeros(pl)]
    /\ pc' = [pc EXCEPT ![s] = "read_passwd"]
    /\ UNCHANGED <<elapsed, out, greetVars, ulen, uname, presented,
                   cred_hash, reqVars, resVars, mapVars>>

\* 141-151: read the password, hash the credentials, zeroize the buffers.
ReadPasswd(s) ==
    /\ pc[s] = "read_passwd"
    /\ \E pw \in SeqsOfLen(CredBytes, plen[s]) :
         /\ cred_hash' = [cred_hash EXCEPT ![s] = CredHash(uname[s], pw)]
         /\ presented' = [presented EXCEPT ![s] = <<uname[s], pw>>]
    /\ uname' = [uname EXCEPT ![s] = Zeros(ulen[s])]
    /\ passwd' = [passwd EXCEPT ![s] = Zeros(plen[s])]
    /\ pc' = [pc EXCEPT ![s] = "write_auth_reply"]
    /\ UNCHANGED <<elapsed, out, greetVars, ulen, plen, reqVars, resVars,
                   mapVars>>

\* 153-154: write 01 00.
WriteAuthReply(s) ==
    /\ pc[s] = "write_auth_reply"
    /\ out' = [out EXCEPT ![s] = @ \o <<1, 0>>]
    /\ pc' = [pc EXCEPT ![s] = "read_req"]
    /\ UNCHANGED <<elapsed, greetVars, authVars, reqVars, resVars, mapVars>>

\* 157-166: read VER CMD RSV ATYP, test VER and CMD, keep ATYP.
ReadReq(s) ==
    /\ pc[s] = "read_req"
    /\ \E ver \in Versions, cmd \in Commands, atyp \in AddrTypes :
         IF ~ValidRequest(ver, cmd)
         THEN HandshakeFails(s, "error", out[s])
         ELSE /\ addr_type' = [addr_type EXCEPT ![s] = atyp]
              /\ pc' = [pc EXCEPT ![s] = "match_addr_type"]
              /\ UNCHANGED <<elapsed, out, greetVars, authVars, addr, dlen,
                             domain_bytes, host, port, resVars, mapVars>>

\* 168-169, 179, 196: match addr_type; any type but 0x01 and 0x03 is an
\* error.
MatchAddrType(s) ==
    /\ pc[s] = "match_addr_type"
    /\ IF ~SupportedAddrType(addr_type[s])
       THEN HandshakeFails(s, "error", out[s])
       ELSE /\ pc' = [pc EXCEPT ![s] =
                        IF addr_type[s] = 1 THEN "read_addr" ELSE "read_len"]
            /\ UNCHANGED <<elapsed, out, greetVars, authVars, reqVars,
                           resVars, mapVars>>

\* 170-171: the 4 address bytes of ATYP 0x01.
ReadAddr(s) ==
    /\ pc[s] = "read_addr"
    /\ \E a \in Ipv4Addrs : addr' = [addr EXCEPT ![s] = a]
    /\ pc' = [pc EXCEPT ![s] = "read_port"]
    /\ UNCHANGED <<elapsed, out, greetVars, authVars, addr_type, dlen,
                   domain_bytes, host, port, resVars, mapVars>>

\* 180-182: the length byte of ATYP 0x03.
ReadLen(s) ==
    /\ pc[s] = "read_len"
    /\ \E l \in 0 .. MaxFieldLen :
         /\ dlen' = [dlen EXCEPT ![s] = l]
         /\ domain_bytes' = [domain_bytes EXCEPT ![s] = Zeros(l)]
    /\ pc' = [pc EXCEPT ![s] = "read_domain"]
    /\ UNCHANGED <<elapsed, out, greetVars, authVars, addr_type, addr, host,
                   port, resVars, mapVars>>

\* 183
ReadDomain(s) ==
    /\ pc[s] = "read_domain"
    /\ \E d \in SeqsOfLen(DomainBytes, dlen[s]) :
         domain_bytes' = [domain_bytes EXCEPT ![s] = d]
    /\ pc' = [pc EXCEPT ![s] = "read_port"]
    /\ UNCHANGED <<elapsed, out, greetVars, authVars, addr_type, addr, dlen,
                   host, port, resVars, mapVars>>

\* 172-177, 184-199: read the port, build (host, port), zeroize, return Ok.
ReadPort(s) ==
    /\ pc[s] = "read_port"
    /\ \E pb \in PortBytes :
         HandshakeReturns(s, "ok", out[s], presented[s], cred_hash[s],
                          IF addr_type[s] = 1 THEN Ipv4ToString(addr[s])
                          ELSE FromUtf8Lossy(domain_bytes[s]),
                          PortFromBe(pb))
    /\ UNCHANGED elapsed

\* A read or write of the handshake fails (EOF, reset): `?` returns the
\* error out of the future.
IoError(s) ==
    /\ pc[s] \in PropagatingAwaits
    /\ HandshakeFails(s, "error", out[s])

\* The timer started with the header read only.
TimeoutHeaderOnly(s) ==
    /\ pc[s] = "read_header"
    /\ elapsed[s] >= HANDSHAKE_TIMEOUT
    /\ HandshakeFails(s, "elapsed", out[s])

\* The timer of timeout(Duration::from_secs(10), ..) fires while the future
\* is pending at an await point: the future is dropped, Err(Elapsed).
Timeout(s) ==
    /\ pc[s] \in HandshakeAwaits
    /\ elapsed[s] >= HANDSHAKE_TIMEOUT
    /\ HandshakeFails(s, "elapsed", out[s])

\* A second passes for a running session.
Tick(s) ==
    /\ pc[s] \notin {"idle", "closed"}
    /\ elapsed[s] < MaxElapsed
    /\ elapsed' = [elapsed EXCEPT ![s] = @ + 1]
    /\ UNCHANGED <<pc, out, greetVars, authVars, reqVars, resVars, mapVars>>

\* ------------------------------------------------------------------------
\* Token selection and overlay connect, proxy.rs 216-260
\* ------------------------------------------------------------------------

\* 245-250: prefs.set_isolation(tok) and the call of
\* tor.connect_with_prefs((host, port), &prefs) by session s, its token
\* looked up when the map had been cleared `epoch` times; the task then
\* awaits the overlay.
CallConnect(s, tok, epoch) ==
    /\ stream_token' = [stream_token EXCEPT ![s] = tok]
    /\ lookup_epoch' = [lookup_epoch EXCEPT ![s] = epoch]
    /\ tor_target' = [tor_target EXCEPT ![s] = <<host[s], port[s]>>]
    /\ connects' = [connects EXCEPT ![s] = @ + 1]
    /\ pc' = [pc EXCEPT ![s] = "connect"]

\* 225-241 with no credentials and auto_isolate off: the default token,
\* no lock; then the connect call.
UseDefaultToken(s) ==
    /\ pc[s] = "select"
    /\ IsolationKey(cred_hash[s], host[s], auto_isolate) = NoKey
    /\ CallConnect(s, DefaultToken, clears)
    /\ UNCHANGED <<elapsed, out, greetVars, authVars, reqVars,
                   handshake_result, tor_stream_result, registry_locks,
                   mapVars>>

\* 219 / 233: isolation_map.lock().unwrap() returns once the mutex is free.
LockRegistry(s) ==
    /\ pc[s] = "select"
    /\ IsolationKey(cred_hash[s], host[s], auto_isolate) # NoKey
    /\ lock_owner = 0
    /\ lock_owner' = s
    /\ registry_locks' = [registry_locks EXCEPT ![s] = @ + 1]
    /\ pc' = [pc EXCEPT ![s] = "locked"]
    /\ UNCHANGED <<elapsed, out, greetVars, authVars, reqVars,
                   handshake_result, stream_token, tor_stream_result,
                   connects, tor_target, lookup_epoch,
                   auto_isolate, isolation_map, other_entries, next_token,
                   clears, listening>>

\* The guard kept in a variable that lives on to the end of the function.
GuardHeldAcrossConnect(s) == s

\* 224 / 238: `map` is a local of the match arm's block; the guard is
\* dropped where the block ends, and the mutex has no owner (0) again.
GuardAfterLookup(s) == 0

\* 220-224 / 234-238 under the lock: clear the map if it is too large, get
\* or insert the token of the key, clone it, drop the guard; then the
\* connect call.
GetOrInsert(s) ==
    /\ pc[s] = "locked"
    /\ lock_owner = s
    /\ LET key == IsolationKey(cred_hash[s], host[s], auto_isolate)
           full == ShouldClear(RegistryLen)
           m0 == IF full THEN << >> ELSE isolation_map
           r == EntryOrInsert(m0, key, next_token)
       IN  /\ isolation_map' = r.map
           /\ other_entries' = IF full THEN 0 ELSE other_entries
           /\ clears' = IF full THEN clears + 1 ELSE clears
           /\ next_token' = IF r.created THEN next_token + 1 ELSE next_token
           /\ CallConnect(s, r.token, clears')
    /\ lock_owner' = GuardAfterLookup(s)
    /\ UNCHANGED <<elapsed, out, greetVars, authVars, reqVars,
                   handshake_result, tor_stream_result, registry_locks,
                   auto_isolate, listening>>

\* 250-254: the overlay opened the stream; host.zeroize(); go on to write
\* the success reply.
ConnectOk(s) ==
    /\ pc[s] = "connect"
    /\ tor_stream_result' = [tor_stream_result EXCEPT ![s] = "ok"]
    /\ host' = [host EXCEPT ![s] = << >>]
    /\ pc' = [pc EXCEPT ![s] = "write_success"]
    /\ UNCHANGED <<elapsed, out, greetVars, authVars, addr_type, addr, dlen,
                   domain_bytes, port, handshake_result, stream_token,
                   registry_locks, connects, tor_target, lookup_epoch,
                   mapVars>>

\* The error of the overlay not matched: the success path is taken.
ConnectErrFallsThrough(s) ==
    /\ pc[s] = "connect"
    /\ tor_stream_result' = [tor_stream_result EXCEPT ![s] = "err"]
    /\ host' = [host EXCEPT ![s] = << >>]
    /\ pc' = [pc EXCEPT ![s] = "write_success"]
    /\ UNCHANGED <<elapsed, out, greetVars, authVars, addr_type, addr, dlen,
                   domain_bytes, port, handshake_result, stream_token,
                   registry_locks, connects, tor_target, lookup_epoch,
                   mapVars>>

\* 250-259: the overlay failed; host.zeroize(); reply_failure and return.
ConnectErr(s) ==
    /\ pc[s] = "connect"
    /\ tor_stream_result' = [tor_stream_result EXCEPT ![s] = "err"]
    /\ host' = [host EXCEPT ![s] = << >>]
    /\ pc' = [pc EXCEPT ![s] = "fail_reply"]
    /\ UNCHANGED <<elapsed, out, greetVars, authVars, addr_type, addr, dlen,
                   domain_bytes, port, handshake_result, stream_token,
                   registry_locks, connects, tor_target, lookup_epoch,
                   mapVars>>

\* 262-263: write the success reply (an error of the write is dropped).
WriteSuccess(s) ==
    /\ pc[s] = "write_success"
    /\ \/ out' = [out EXCEPT ![s] = @ \o SuccessReplyBytes]
       \/ out' = out
    /\ pc' = [pc EXCEPT ![s] = "relaying"]
    /\ UNCHANGED <<elapsed, greetVars, authVars, reqVars, resVars, mapVars>>

\* handle_socks_connection returns Ok(()) and the spawned task ends with
\* it, proxy.rs 70-77: the client stream, the stream to the overlay, the
\* task's clone of its token and every local are dropped.  What the client
\* received stays.
TaskEnds(s) ==
    /\ pc' = [pc EXCEPT ![s] = "closed"]
    /\ elapsed' = [elapsed EXCEPT ![s] = 0]
    /\ presented' = [presented EXCEPT ![s] = << >>]
    /\ cred_hash' = [cred_hash EXCEPT ![s] = NoCred]
    /\ port' = [port EXCEPT ![s] = 0]
    /\ handshake_result' = [handshake_result EXCEPT ![s] = "pending"]
    /\ tor_stream_result' = [tor_stream_result EXCEPT ![s] = "none"]
    /\ stream_token' = [stream_token EXCEPT ![s] = NoToken]
    /\ registry_locks' = [registry_locks EXCEPT ![s] = 0]
    /\ connects' = [connects EXCEPT ![s] = 0]
    /\ tor_target' = [tor_target EXCEPT ![s] = << >>]
    /\ lookup_epoch' = [lookup_epoch EXCEPT ![s] = 0]
    /\ UNCHANGED <<greetVars, ulen, uname, plen, passwd, addr_type, addr,
                   dlen, domain_bytes, host, mapVars>>

\* 265-273: the splice ends, the function returns.
SpliceDone(s) ==
    /\ pc[s] = "relaying"
    /\ out' = out
    /\ TaskEnds(s)

\* reply_failure without the `return` after it: the failure reply is
\* written and the function goes on to the success reply.
ReplyFailureNoReturn(s) ==
    /\ pc[s] = "fail_reply"
    /\ \/ out' = [out EXCEPT ![s] = @ \o ReplyFailureBytes]
       \/ out' = out
    /\ pc' = [pc EXCEPT ![s] = "write_success"]
    /\ UNCHANGED <<elapsed, greetVars, authVars, reqVars, resVars, mapVars>>

\* reply_failure, 297-301, then `return Ok(())`: write the failure reply
\* (an error of the write is dropped).
ReplyFailure(s) ==
    /\ pc[s] = "fail_reply"
    /\ \/ out' = [out EXCEPT ![s] = @ \o ReplyFailureBytes]
       \/ out' = out
    /\ TaskEnds(s)

\* ------------------------------------------------------------------------
\* Specifications
\* ------------------------------------------------------------------------

\* One step of the handshake future of session s.
HandshakeStep(s) ==
    \/ ReadHeader(s)
    \/ ReadMethods(s)
    \/ SelectMethod(s)
    \/ WriteNoMethod(s)
    \/ WriteMethod(s)
    \/ ReadAuthVer(s)
    \/ ReadUname(s)
    \/ ReadPlen(s)
    \/ ReadPasswd(s)
    \/ WriteAuthReply(s)
    \/ ReadReq(s)
    \/ MatchAddrType(s)
    \/ ReadAddr(s)
    \/ ReadLen(s)
    \/ ReadDomain(s)
    \/ ReadPort(s)
    \/ IoError(s)
    \/ Timeout(s)

\* One step of session s after its handshake.
DispatchStep(s) ==
    \/ UseDefaultToken(s)
    \/ LockRegistry(s)
    \/ GetOrInsert(s)
    \/ ConnectOk(s)
    \/ ConnectErr(s)
    \/ WriteSuccess(s)
    \/ SpliceDone(s)
    \/ ReplyFailure(s)

\* The handshake future of session s as one step, for the runs that follow
\* several sessions through the registry: it returns Ok with the client's
\* credentials (or none) and destination, or an error, or times out, having
\* written the replies of the steps it passed.  SpecSession takes the same
\* future step by step; HandshakeAsOneStep relates the two.
SessionCreds == {<< >>, <<<<97>>, << >>>>, <<<< >>, <<97>>>>}

SessionHosts == {<<97>>, Ipv4ToString(<<10, 0, 0, 1>>)}

SessionPorts == {PortFromBe(pb) : pb \in PortBytes}

\* What the client has received when the future returns Ok.
RepliesOfOk(c) == IF c = << >> THEN <<5, 0>> ELSE <<5, 2, 1, 0>>

\* What the client has received when the future fails or times out.
RepliesOfFailure ==
    {<<"error", << >>>>, <<"error", <<5, 255>>>>, <<"error", <<5, 0>>>>,
     <<"error", <<5, 2>>>>, <<"error", <<5, 2, 1, 0>>>>,
     <<"elapsed", << >>>>, <<"elapsed", <<5, 0>>>>, <<"elapsed", <<5, 2>>>>,
     <<"elapsed", <<5, 2, 1, 0>>>>}

Handshake(s) ==
    /\ pc[s] = "read_header"
    /\ \/ \E c \in SessionCreds, h \in SessionHosts, pt \in SessionPorts :
            /\ HandshakeReturns(s, "ok", RepliesOfOk(c), c,
                                IF c = << >> THEN NoCred
                                ELSE CredHash(c[1], c[2]),
                                h, pt)
            /\ UNCHANGED elapsed
       \/ \E f \in RepliesOfFailure :
            /\ HandshakeReturns(s, f[1], f[2], << >>, NoCred, << >>, 0)
            /\ elapsed' = [elapsed EXCEPT ![s] =
                             IF f[1] = "elapsed" THEN HANDSHAKE_TIMEOUT ELSE @]

\* Any number of connections, their dispatch steps interleaved.
Next ==
    /\ \E s \in Sessions :
            \/ Accept(s)
            \/ TlsHandshakeFailed(s)
            \/ Handshake(s)
            \/ DispatchStep(s)
    /\ UNCHANGED <<relayVars, mainVars, dnsVars>>

Spec == Init /\ [][Next]_vars

\* The sessions together with the accept loop that spawns them: the loop
\* itself can end, by the `?` on listener.accept().
NextListener ==
    /\ \/ \E s \in Sessions :
            \/ Accept(s)
            \/ TlsHandshakeFailed(s)
            \/ Handshake(s)
            \/ DispatchStep(s)
       \/ AcceptError
    /\ UNCHANGED <<relayVars, mainVars, dnsVars>>

SpecListener == Init /\ [][NextListener]_vars

\* One connection, step by step, with its clock.
NextSession ==
    /\ \E s \in {1} :
            \/ Accept(s)
            \/ TlsHandshakeFailed(s)
            \/ HandshakeStep(s)
            \/ DispatchStep(s)
            \/ Tick(s)
    /\ UNCHANGED <<relayVars, mainVars, dnsVars>>

SpecSession == Init /\ [][NextSession]_vars

\* One connection whose client may stop sending, or stop reading, at any
\* point: no read or write on the client stream inside the handshake is
\* sure to complete.  Time passes, the timer of timeout(..) fires when it
\* is due, the code between two awaits runs, and the 10 bytes of
\* reply_failure go into the socket's send buffer whatever the client does.
FairSession ==
    /\ WF_vars(Tick(1) /\ UNCHANGED <<relayVars, mainVars, dnsVars>>)
    /\ WF_vars(Timeout(1) /\ UNCHANGED <<relayVars, mainVars, dnsVars>>)
    /\ WF_vars(SelectMethod(1) /\ UNCHANGED <<relayVars, mainVars, dnsVars>>)
    /\ WF_vars(MatchAddrType(1) /\ UNCHANGED <<relayVars, mainVars, dnsVars>>)
    /\ WF_vars(ReplyFailure(1) /\ UNCHANGED <<relayVars, mainVars, dnsVars>>)

SpecStalled == SpecSession /\ FairSession

\* ------------------------------------------------------------------------
\* The splice, proxy.rs 265-273, and zeroizing_copy, proxy.rs 277-295
\* ------------------------------------------------------------------------

\* Session 1 as WriteSuccess leaves it, for a client without credentials
\* asking for "a":443 with auto_isolate off.
RelayStart ==
    /\ pc = [s \in Sessions |-> IF s = 1 THEN "relaying" ELSE "idle"]
    /\ elapsed = [s \in Sessions |-> 0]
    /\ out = [s \in Sessions |->
                IF s = 1 THEN <<5, 0>> \o SuccessReplyBytes ELSE << >>]
    /\ nmethods = [s \in Sessions |-> 0]
    /\ methods = [s \in Sessions |-> << >>]
    /\ auth_method = [s \in Sessions |-> 255]
    /\ ulen = [s \in Sessions |-> 0]
    /\ uname = [s \in Sessions |-> << >>]
    /\ plen = [s \in Sessions |-> 0]
    /\ passwd = [s \in Sessions |-> << >>]
    /\ presented = [s \in Sessions |-> << >>]
    /\ cred_hash = [s \in Sessions |-> NoCred]
    /\ addr_type = [s \in Sessions |-> 0]
    /\ addr = [s \in Sessions |-> << >>]
    /\ dlen = [s \in Sessions |-> 0]
    /\ domain_bytes = [s \in Sessions |-> << >>]
    /\ host = [s \in Sessions |-> << >>]
    /\ port = [s \in Sessions |-> IF s = 1 THEN 443 ELSE 0]
    /\ handshake_result = [s \in Sessions |->
                             IF s = 1 THEN "ok" ELSE "pending"]
    /\ stream_token = [s \in Sessions |->
                         IF s = 1 THEN DefaultToken ELSE NoToken]
    /\ tor_stream_result = [s \in Sessions |->
                              IF s = 1 THEN "ok" ELSE "none"]
    /\ registry_locks = [s \in Sessions |-> 0]
    /\ connects = [s \in Sessions |-> IF s = 1 THEN 1 ELSE 0]
    /\ tor_target = [s \in Sessions |->
                       IF s = 1 THEN <<<<97>>, 443>> ELSE << >>]
    /\ lookup_epoch = [s \in Sessions |-> 0]
    /\ auto_isolate = FALSE
    /\ isolation_map = << >>
    /\ other_entries = 0
    /\ lock_owner = 0
    /\ next_token = 1
    /\ clears = 0
    /\ listening = TRUE

\* 265-271: both copy futures start with `let mut buf = [0u8; 8192]`; each
\* reader will deliver some payload and then EOF, unless it fails before.
InitRelay ==
    /\ RelayStart
    /\ ServicesRunning
    /\ NoDnsConnection
    /\ copy_pc = [d \in Dirs |-> "read"]
    /\ buf = [d \in Dirs |-> Zeros(BufLen)]
    /\ nread = [d \in Dirs |-> 0]
    /\ src \in [Dirs -> Payloads]
    /\ taken = [d \in Dirs |-> << >>]
    /\ dst = [d \in Dirs |-> << >>]
    /\ writer_ok = [d \in Dirs |-> TRUE]

Min(a, b) == IF a <= b THEN a ELSE b

\* The whole buffer handed to write_all.
ChunkWhole(b, n) == b

\* 289: &buf[..n]
Chunk(b, n) == SubSeq(b, 1, n)

\* 284, 286: reader.read(&mut buf) returns Ok(n), 0 < n <= buf.len(): the
\* next n bytes of the source are in buf[..n].
CopyRead(d) ==
    /\ pc[1] = "relaying"
    /\ copy_pc[d] = "read"
    /\ src[d] # << >>
    /\ \E n \in 1 .. Min(BufLen, Len(src[d])) :
         /\ nread' = [nread EXCEPT ![d] = n]
         /\ buf' = [buf EXCEPT ![d] =
                      SubSeq(src[d], 1, n) \o SubSeq(@, n + 1, BufLen)]
         /\ taken' = [taken EXCEPT ![d] = @ \o SubSeq(src[d], 1, n)]
         /\ src' = [src EXCEPT ![d] = SubSeq(@, n + 1, Len(@))]
    /\ copy_pc' = [copy_pc EXCEPT ![d] = "write"]
    /\ UNCHANGED <<dst, writer_ok, sessionVars, mainVars>>

\* 289-291: write_all and flush return, their errors dropped; then
\* buf[..n].zeroize().  A write that fails has passed on less than the
\* chunk, and a writer that failed once accepts nothing more.
CopyWrite(d) ==
    /\ pc[1] = "relaying"
    /\ copy_pc[d] = "write"
    /\ \/ /\ writer_ok[d]
          /\ dst' = [dst EXCEPT ![d] = @ \o Chunk(buf[d], nread[d])]
          /\ writer_ok' = writer_ok
       \/ /\ \E k \in 0 .. (IF writer_ok[d] THEN nread[d] - 1 ELSE 0) :
               dst' = [dst EXCEPT ![d] = @ \o SubSeq(buf[d], 1, k)]
          /\ writer_ok' = [writer_ok EXCEPT ![d] = FALSE]
    /\ buf' = [buf EXCEPT ![d] =
                 Zeros(nread[d]) \o SubSeq(@, nread[d] + 1, BufLen)]
    /\ copy_pc' = [copy_pc EXCEPT ![d] = "read"]
    /\ UNCHANGED <<nread, src, taken, sessionVars, mainVars>>

\* 285, 293-294: read returns Ok(0); buf.zeroize(); the future returns
\* Ok(()).  try_join! returns once both futures have returned Ok, and the
\* function returns with it; until then the other future runs on.
CopyEof(d) ==
    /\ pc[1] = "relaying"
    /\ copy_pc[d] = "read"
    /\ src[d] = << >>
    /\ buf' = [buf EXCEPT ![d] = Zeros(BufLen)]
    /\ copy_pc' = [copy_pc EXCEPT ![d] = "returned_ok"]
    /\ IF copy_pc[Other(d)] = "returned_ok"
       THEN SpliceDone(1)
       ELSE UNCHANGED sessionVars
    /\ UNCHANGED <<nread, src, taken, dst, writer_ok, mainVars>>

\* 287: read returns Err; the future returns Err.  try_join! returns at the
\* first Err and drops the other future where it is, buffer and all; the
\* function returns.
CopyReadErr(d) ==
    /\ pc[1] = "relaying"
    /\ copy_pc[d] = "read"
    /\ copy_pc' = [e \in Dirs |->
                     IF e = d THEN "returned_err"
                     ELSE IF copy_pc[e] \in {"read", "write"} THEN "dropped"
                     ELSE copy_pc[e]]
    /\ SpliceDone(1)
    /\ UNCHANGED <<buf, nread, src, taken, dst, writer_ok, mainVars>>

NextRelay ==
    /\ \E d \in Dirs :
            \/ CopyRead(d)
            \/ CopyWrite(d)
            \/ CopyEof(d)
            \/ CopyReadErr(d)
    /\ UNCHANGED dnsVars

\* The splice of one relaying session.
SpecRelay == InitRelay /\ [][NextRelay]_vars

\* ------------------------------------------------------------------------
\* The process, main.rs 33-199
\* ------------------------------------------------------------------------

\* Exit statuses: main returns Ok(()) or calls exit(0); main returns Err or
\* calls exit(1); a panic.
ExitOk == 0
ExitErr == 1
ExitPanic == 101

\* main() starts: arguments and configuration are read, nothing runs yet.
InitMain ==
    /\ SessionsIdle
    /\ listening = FALSE
    /\ NoSplice
    /\ NoDnsConnection
    /\ main_pc = "harden"
    /\ exit_code = NotExited
    /\ probe_result = "none"
    /\ spawned = {}
    /\ selfcheck \in BOOLEAN
    /\ strict_mode \in BOOLEAN
    /\ chaff_enabled \in BOOLEAN
    /\ euid_root \in BOOLEAN
    /\ step_result = [k \in StartupSteps |-> "none"]

\* The process ends with status `code`.
Exit(code) ==
    /\ main_pc' = "exited"
    /\ exit_code' = code

\* Start-up step k returned `result`.
Returned(k, result) == step_result' = [step_result EXCEPT ![k] = result]

\* 59-73: in strict mode a failure of apply_protections panics, and so does
\* running as root; otherwise main goes on.  Without strict mode neither
\* runs.
Harden ==
    /\ main_pc = "harden"
    /\ IF strict_mode
       THEN \/ Returned("harden", "err") /\ Exit(ExitPanic)
            \/ IF euid_root
               THEN /\ step_result' = [step_result EXCEPT
                                         !["harden"] = "ok",
                                         !["nonroot"] = "err"]
                    /\ Exit(ExitPanic)
               ELSE /\ step_result' = [step_result EXCEPT
                                         !["harden"] = "ok",
                                         !["nonroot"] = "ok"]
                    /\ main_pc' = "configure" /\ exit_code' = exit_code
       ELSE /\ main_pc' = "configure" /\ exit_code' = exit_code
            /\ step_result' = step_result
    /\ UNCHANGED <<probe_result, spawned, selfcheck, strict_mode,
                   chaff_enabled, euid_root, sessionVars, relayVars>>

\* 83-119: the state and cache directories and the TorClientConfig; each
\* error is returned from main with `?`.
Configure ==
    /\ main_pc = "configure"
    /\ \/ /\ Returned("configure", "ok")
          /\ main_pc' = "bootstrap" /\ exit_code' = exit_code
       \/ Returned("configure", "err") /\ Exit(ExitErr)
    /\ UNCHANGED <<probe_result, spawned, selfcheck, strict_mode,
                   chaff_enabled, euid_root, sessionVars, relayVars>>

\* An error of the bootstrap that is logged and not returned.
BootstrapErrorIgnored ==
    /\ main_pc = "bootstrap"
    /\ \/ /\ Returned("bootstrap", "ok")
          /\ main_pc' = IF selfcheck THEN "selfcheck_connect"
                                    ELSE "spawn_socks"
          /\ exit_code' = exit_code
       \/ /\ Returned("bootstrap", "err")
          /\ main_pc' = "spawn_socks"
          /\ exit_code' = exit_code
    /\ UNCHANGED <<probe_result, spawned, selfcheck, strict_mode,
                   chaff_enabled, euid_root, sessionVars, relayVars>>

\* 126-135: TorClient::create_bootstrapped(..).await: an error is returned
\* from main; on success main branches on args.selfcheck.
Bootstrap ==
    /\ main_pc = "bootstrap"
    /\ \/ /\ Returned("bootstrap", "ok")
          /\ main_pc' = IF selfcheck THEN "selfcheck_connect"
                                    ELSE "spawn_socks"
          /\ exit_code' = exit_code
       \/ Returned("bootstrap", "err") /\ Exit(ExitErr)
    /\ UNCHANGED <<probe_result, spawned, selfcheck, strict_mode,
                   chaff_enabled, euid_root, sessionVars, relayVars>>

\* The status of a self-check that only looks at the bootstrap.
SelfCheckExitAfterBootstrap(result) == ExitOk

\* 138-147: exit(0) if the connect to 1.1.1.1:53 succeeded, exit(1) if not.
SelfCheckExit(result) == IF result = "ok" THEN ExitOk ELSE ExitErr

\* 138-147: tor_client.connect(("1.1.1.1", 53)).await returns.
SelfCheckConnect ==
    /\ main_pc = "selfcheck_connect"
    /\ \E result \in {"ok", "err"} :
         /\ probe_result' = result
         /\ Exit(SelfCheckExit(result))
    /\ UNCHANGED <<spawned, selfcheck, strict_mode, chaff_enabled,
                   euid_root, step_result, sessionVars, relayVars>>

\* 155-163: the SOCKS task is spawned; start_socks_server reaches its accept
\* loop, or returns an error (proxy.rs 32-50), which the task logs.
SpawnSocks ==
    /\ main_pc = "spawn_socks"
    /\ spawned' = spawned \cup {"socks"}
    /\ listening' \in BOOLEAN
    /\ main_pc' = "spawn_dns"
    /\ UNCHANGED <<exit_code, probe_result, selfcheck, strict_mode,
                   chaff_enabled, euid_root, step_result, ioVars, greetVars,
                   authVars, reqVars, resVars, auto_isolate, isolation_map,
                   other_entries, lock_owner, next_token, clears, relayVars>>

\* 168-176: the DNS task is spawned.
SpawnDns ==
    /\ main_pc = "spawn_dns"
    /\ spawned' = spawned \cup {"dns"}
    /\ main_pc' = "spawn_chaff"
    /\ UNCHANGED <<exit_code, probe_result, selfcheck, strict_mode,
                   chaff_enabled, euid_root, step_result, sessionVars,
                   relayVars>>

\* 181-187: the cover-traffic task is spawned if cfg.chaff_enabled.
SpawnChaff ==
    /\ main_pc = "spawn_chaff"
    /\ spawned' = IF chaff_enabled THEN spawned \cup {"chaff"} ELSE spawned
    /\ main_pc' = "wait_signal"
    /\ UNCHANGED <<exit_code, probe_result, selfcheck, strict_mode,
                   chaff_enabled, euid_root, step_result, sessionVars,
                   relayVars>>

\* 192-198: signal::ctrl_c().await returns (Ok or Err); main returns Ok(()).
Shutdown ==
    /\ main_pc = "wait_signal"
    /\ Exit(ExitOk)
    /\ UNCHANGED <<probe_result, spawned, selfcheck, strict_mode,
                   chaff_enabled, euid_root, step_result, sessionVars,
                   relayVars>>

NextMain ==
    /\ \/ Harden
       \/ Configure
       \/ Bootstrap
       \/ SelfCheckConnect
       \/ SpawnSocks
       \/ SpawnDns
       \/ SpawnChaff
       \/ Shutdown
    /\ UNCHANGED dnsVars

\* The process from the start of main() to its exit.
SpecMain == InitMain /\ [][NextMain]_vars

\* ------------------------------------------------------------------------
\* The DNS forwarder, dns.rs 70-128
\* ------------------------------------------------------------------------

\* dns.rs 82 and 114: the longest message the forwarder relays.
MAX_DNS_MSG == 4096

\* The largest length a 2-byte prefix can announce.
U16_MAX == 65535

\* u16::to_be_bytes and u16::from_be_bytes.
ToBeBytes(n) == <<n \div 256, n % 256>>
FromBeBytes(b) == b[1] * 256 + b[2]

\* The lengths a frame announces in the model: the small ones, the limit,
\* the limit plus one and the largest.
DnsLens == (0 .. MaxDnsLen) \cup {MAX_DNS_MSG, MAX_DNS_MSG + 1, U16_MAX}

\* A message body of n bytes; the seed tells bodies apart.
DnsSeeds == {1, 3}
DnsBody(n, seed) == [i \in 1 .. n |-> (i * seed) % 256]

\* A well-formed frame: the length prefix and a body of that length.
DnsFrame(n, seed) == ToBeBytes(n) \o DnsBody(n, seed)

\* How much of n bytes a write_all that fails can have written.
PartialLens(n) == {k \in {0, 1, n - 1} : k >= 0 /\ k < n}

\* Any length is relayed.
AnyDnsLen(n) == TRUE

\* 82 and 114: `len == 0 || len > 4096` bails.
ValidDnsLen(n) == ~(n = 0 \/ n > MAX_DNS_MSG)

\* An await returns Err and `?` returns it from the future: the task logs
\* it, the streams are dropped.
DnsErr == dns' = [dns EXCEPT !.pc = "err", !.io_failed = TRUE]

\* 78-84: read_exact(&mut len_buf) of the client's frame, then the test of
\* msg_len; a read error is returned with `?`.
DnsReadLen ==
    /\ dns.pc = "read_len"
    /\ \/ \E n \in DnsLens, seed \in DnsSeeds :
            LET lb == ToBeBytes(n)
                ml == FromBeBytes(lb)
            IN  dns' = [dns EXCEPT
                          !.query = DnsFrame(n, seed),
                          !.len_buf = lb,
                          !.msg_len = ml,
                          !.pc = IF ValidDnsLen(ml) THEN "read_msg"
                                 ELSE "err"]
       \/ DnsErr

\* 86-87: dns_msg = vec![0u8; msg_len]; read_exact(&mut dns_msg).
DnsReadMsg ==
    /\ dns.pc = "read_msg"
    /\ \/ dns' = [dns EXCEPT
                    !.dns_msg = SubSeq(dns.query, 3, 2 + dns.msg_len),
                    !.pc = "connect"]
       \/ DnsErr

\* 93-101: tor.connect(resolver), and on its error one connect to the
\* fallback resolver, whose error is returned.
DnsConnect ==
    /\ dns.pc = "connect"
    /\ \/ \E r \in {"onion", "fallback"} :
            dns' = [dns EXCEPT !.resolver = r, !.pc = "write_len"]
       \/ DnsErr

\* 104: tor_stream.write_all(&len_buf).
DnsWriteLen ==
    /\ dns.pc = "write_len"
    /\ \/ dns' = [dns EXCEPT !.tor_out = @ \o dns.len_buf,
                              !.pc = "write_msg"]
       \/ \E k \in PartialLens(2) :
            dns' = [dns EXCEPT !.tor_out = @ \o SubSeq(dns.len_buf, 1, k),
                               !.pc = "err", !.io_failed = TRUE]

\* 105: tor_stream.write_all(&dns_msg).
DnsWriteMsg ==
    /\ dns.pc = "write_msg"
    /\ \/ dns' = [dns EXCEPT !.tor_out = @ \o dns.dns_msg,
                              !.pc = "read_resp_len"]
       \/ \E k \in PartialLens(Len(dns.dns_msg)) :
            dns' = [dns EXCEPT !.tor_out = @ \o SubSeq(dns.dns_msg, 1, k),
                               !.pc = "err", !.io_failed = TRUE]

\* 110-116: the resolver produces a frame; read_exact(&mut resp_len_buf),
\* then the test of resp_len.
DnsReadRespLen ==
    /\ dns.pc = "read_resp_len"
    /\ \/ \E n \in DnsLens, seed \in DnsSeeds :
            LET lb == ToBeBytes(n)
                rl == FromBeBytes(lb)
            IN  dns' = [dns EXCEPT
                          !.produced = DnsFrame(n, seed),
                          !.resp_len_buf = lb,
                          !.resp_len = rl,
                          !.pc = IF ValidDnsLen(rl) THEN "read_resp"
                                 ELSE "err"]
       \/ DnsErr

\* 118-119: resp = vec![0u8; resp_len]; read_exact(&mut resp).
DnsReadResp ==
    /\ dns.pc = "read_resp"
    /\ \/ dns' = [dns EXCEPT
                    !.resp = SubSeq(dns.produced, 3, 2 + dns.resp_len),
                    !.pc = "write_resp_len"]
       \/ DnsErr

\* 124: client.write_all(&resp_len_buf).
DnsWriteRespLen ==
    /\ dns.pc = "write_resp_len"
    /\ \/ dns' = [dns EXCEPT !.client_out = @ \o dns.resp_len_buf,
                              !.pc = "write_resp"]
       \/ \E k \in PartialLens(2) :
            dns' = [dns EXCEPT
                      !.client_out = @ \o SubSeq(dns.resp_len_buf, 1, k),
                      !.pc = "err", !.io_failed = TRUE]

\* 125-127: client.write_all(&resp), then Ok(()).
DnsWriteResp ==
    /\ dns.pc = "write_resp"
    /\ \/ dns' = [dns EXCEPT !.client_out = @ \o dns.resp, !.pc = "done"]
       \/ \E k \in PartialLens(Len(dns.resp)) :
            dns' = [dns EXCEPT !.client_out = @ \o SubSeq(dns.resp, 1, k),
                               !.pc = "err", !.io_failed = TRUE]

\* 57-67: a connection is accepted and its task spawned.
InitDns ==
    /\ SessionsIdle
    /\ listening = TRUE
    /\ NoSplice
    /\ ServicesRunning
    /\ dns = DnsLocals("read_len")

NextDns ==
    /\ \/ DnsReadLen
       \/ DnsReadMsg
       \/ DnsConnect
       \/ DnsWriteLen
       \/ DnsWriteMsg
       \/ DnsReadRespLen
       \/ DnsReadResp
       \/ DnsWriteRespLen
       \/ DnsWriteResp
    /\ UNCHANGED <<sessionVars, relayVars, mainVars>>

\* One connection of the DNS forwarder.
SpecDns == InitDns /\ [][NextDns]_vars

\* The future taken step by step returns nothing the one-step Handshake
\* does not allow for, up to the choice of credentials and destination.
HandshakeAsOneStep ==
    \A s \in Sessions :
        /\ handshake_result[s] = "ok" /\ pc[s] = "select" =>
             /\ out[s] = RepliesOfOk(presented[s])
             /\ cred_hash[s] = IF presented[s] = << >> THEN NoCred
                               ELSE CredHash(presented[s][1], presented[s][2])
        /\ handshake_result[s] \in {"error", "elapsed"} /\ pc[s] = "fail_reply" =>
             /\ <<handshake_result[s], out[s]>> \in RepliesOfFailure
             /\ presented[s] = << >> /\ cred_hash[s] = NoCred
             /\ host[s] = << >> /\ port[s] = 0

\* The fold standing for DefaultHasher separates the inputs of the model.
HashInjective ==
    LET creds == {<<u, p>> : u \in SeqsUpTo(CredBytes, MaxFieldLen + 1),
                             p \in SeqsUpTo(CredBytes, MaxFieldLen + 1)}
        hosts == {Ipv4ToString(a) : a \in Ipv4Addrs}
                 \cup {FromUtf8Lossy(d) :
                         d \in SeqsUpTo(DomainBytes, MaxFieldLen + 1)}
    IN  /\ \A c, d \in creds :
              CredHash(c[1], c[2]) = CredHash(d[1], d[2]) => c = d
        /\ \A g, h \in hosts : HostHash(g) = HostHash(h) => g = h
        /\ \A c \in creds, h \in hosts : CredHash(c[1], c[2]) # HostHash(h)

\* ------------------------------------------------------------------------
\* Properties
\* ------------------------------------------------------------------------

\* What a client can have received when the negotiation stops: nothing, a
\* method selection, or a method selection and the sub-negotiation reply.
NegotiationReplies ==
    {<< >>, <<5, 0>>, <<5, 2>>, <<5, 255>>, <<5, 2, 1, 0>>}

\* C1 (reply uniformity): a session that has failed (its handshake returned
\* an error or timed out, or the overlay connect failed) has sent the client
\* nothing but method-selection and sub-negotiation replies, and whatever it
\* writes after that is exactly 05 01 00 01 00 00 00 00 00 00; a connection
\* whose TLS accept failed, and a session that has ended, write nothing.
C1_ReplyUniformity ==
    [][\A s \in Sessions :
         /\ pc[s] = "fail_reply" =>
              /\ out[s] \in NegotiationReplies
              /\ out'[s] \in {out[s],
                              out[s] \o <<5, 1, 0, 1, 0, 0, 0, 0, 0, 0>>}
         /\ pc[s] = "idle" /\ pc'[s] = "closed" => out'[s] = << >>
         /\ pc[s] = "closed" => out'[s] = out[s]]_vars

\* C1 witness: a session ended after an error that followed the
\* sub-negotiation, and the client holds the failure reply.
C1_Witness ==
    \E s \in Sessions :
        /\ pc[s] = "closed"
        /\ out[s] = <<5, 2, 1, 0, 5, 1, 0, 1, 0, 0, 0, 0, 0, 0>>

\* C2 (no leak on error): a session whose handshake returned an error or
\* timed out has called the overlay zero times, has locked the registry
\* zero times, holds no token, and is on its way to reply_failure only.
C2_NoLeakOnError ==
    \A s \in Sessions :
        handshake_result[s] \in {"error", "elapsed"} =>
            /\ connects[s] = 0
            /\ registry_locks[s] = 0
            /\ stream_token[s] = NoToken
            /\ lock_owner # s
            /\ pc[s] = "fail_reply"

\* C2 witness: a handshake that timed out after the method selection, and
\* (in another run) one that failed after the sub-negotiation.
C2_Witness ==
    \E s \in Sessions :
        /\ pc[s] = "fail_reply"
        /\ handshake_result[s] = "elapsed"
        /\ out[s] = <<5, 2>>
        /\ elapsed[s] >= HANDSHAKE_TIMEOUT

\* A session holds a token from its connect call until its task ends.
HoldsToken(s) == stream_token[s] # NoToken

\* Two sessions present the same isolation identity: equal credentials, or,
\* with auto_isolate on and no credentials, equal destination hosts.
SameIdentity(s, t) ==
    \/ presented[s] # << >> /\ presented[s] = presented[t]
    \/ /\ auto_isolate
       /\ presented[s] = << >> /\ presented[t] = << >>
       /\ tor_target[s][1] = tor_target[t][1]

\* C3 as claimed: any two sessions of equal identity hand the same token to
\* the overlay.
C3_EqualKeysSameToken ==
    \A s, t \in Sessions :
        HoldsToken(s) /\ HoldsToken(t) /\ SameIdentity(s, t) =>
            stream_token[s] = stream_token[t]

\* C3 as amended: any two sessions of equal identity whose lookups were not
\* separated by a clearing of the registry hand the same token to the
\* overlay.
C3_EqualKeysSameTokenUnlessCleared ==
    \A s, t \in Sessions :
        /\ HoldsToken(s) /\ HoldsToken(t) /\ SameIdentity(s, t)
        /\ lookup_epoch[s] = lookup_epoch[t]
        => stream_token[s] = stream_token[t]

\* C3 witness: two sessions with equal credentials share a registry token.
C3_Witness ==
    \E s, t \in Sessions :
        /\ s # t
        /\ HoldsToken(s) /\ HoldsToken(t)
        /\ presented[s] # << >> /\ presented[s] = presented[t]
        /\ lookup_epoch[s] = lookup_epoch[t]
        /\ stream_token[s] = stream_token[t]
        /\ stream_token[s] # DefaultToken

\* The isolation key of a session that holds a token: its credential hash,
\* else with auto_isolate the hash of the host it asked the overlay for.
KeyOf(s) ==
    IF cred_hash[s] # NoCred THEN cred_hash[s]
    ELSE IF auto_isolate THEN HostHash(tor_target[s][1])
    ELSE NoKey

\* C4 (circuit isolation): no two sessions whose isolation keys differ hold
\* the same token, and no keyed session holds the default token.
C4_DifferentKeysDifferentTokens ==
    \A s, t \in Sessions :
        HoldsToken(s) /\ HoldsToken(t) =>
            /\ KeyOf(s) # KeyOf(t) => stream_token[s] # stream_token[t]
            /\ KeyOf(s) # NoKey => stream_token[s] # DefaultToken

\* C4 witness: after the registry was cleared, two keyed sessions with
\* different keys hold different tokens.
C4_Witness ==
    \E s, t \in Sessions :
        /\ clears >= 1
        /\ HoldsToken(s) /\ HoldsToken(t)
        /\ KeyOf(s) # NoKey /\ KeyOf(t) # NoKey
        /\ KeyOf(s) # KeyOf(t)
        /\ stream_token[s] # stream_token[t]

\* The key a session that holds the lock is about to look up.
KeyOfLookup(s) ==
    IF cred_hash[s] # NoCred THEN cred_hash[s] ELSE HostHash(host[s])

\* C5 as claimed (registry bound): whenever the registry lock is free, the
\* map holds at most MAX_ISOLATION_ENTRIES entries.
C5_RegistryBound ==
    lock_owner = 0 => RegistryLen <= MAX_ISOLATION_ENTRIES

\* C6 as claimed (capacity policy): a lookup of an absent key in a registry
\* of MAX_ISOLATION_ENTRIES or more entries leaves exactly one entry.
C6_CapacityPolicy ==
    [][\A s \in Sessions :
         /\ pc[s] = "locked" /\ pc'[s] = "connect"
         /\ RegistryLen >= MAX_ISOLATION_ENTRIES
         /\ KeyOfLookup(s) \notin DOMAIN isolation_map
         => RegistryLen' = 1]_vars

\* C7 (method selection): the method selected is 0x02 if the greeting
\* offers it, else 0x00 if the greeting offers it; the reply written is
\* 05 <method>; and the sub-negotiation is entered exactly when 0x02 was
\* selected.
C7_MethodSelection ==
    [][\A s \in Sessions :
         LET offered == {methods[s][i] : i \in 1 .. Len(methods[s])}
             expected == IF 2 \in offered THEN 2
                         ELSE IF 0 \in offered THEN 0 ELSE 255
         IN  /\ pc[s] = "select_method" /\ pc'[s] # "select_method" =>
                  /\ auth_method'[s] = expected
                  /\ expected # 255 => pc'[s] = "write_method"
             /\ pc[s] = "write_method" /\ pc'[s] \notin {"write_method", "fail_reply"} =>
                  /\ out'[s] = out[s] \o <<5, auth_method[s]>>
                  /\ auth_method[s] \in {0, 2}
                  /\ pc'[s] = "read_auth_ver" <=> auth_method[s] = 2
                  /\ pc'[s] = "read_req" <=> auth_method[s] = 0
             /\ pc[s] # "read_auth_ver" /\ pc'[s] = "read_auth_ver" =>
                  pc[s] = "write_method"
             /\ pc[s] # "read_req" /\ pc'[s] = "read_req" =>
                  \/ pc[s] = "write_method" /\ auth_method[s] = 0
                  \/ pc[s] = "write_auth_reply" /\ auth_method[s] = 2]_vars

\* C7 witness: two methods were offered, 0x02 was selected and answered,
\* and the session waits for the sub-negotiation.
C7_Witness ==
    \E s \in Sessions :
        /\ pc[s] = "read_auth_ver"
        /\ nmethods[s] = 2
        /\ auth_method[s] = 2
        /\ out[s] = <<5, 2>>

\* C8 as claimed (no acceptable method): once 05 FF is written, nothing
\* else is written to the client in that session.
C8_NoMethodReplyIsLast ==
    \A s \in Sessions :
        /\ pc[s] = "closed"
        /\ Len(out[s]) >= 2
        /\ SubSeq(out[s], 1, 2) = <<5, 255>>
        => out[s] = <<5, 255>>

\* C9 (token selection): the connect call of a session with a credential
\* hash carries the registry's token under that hash; without credentials
\* and with auto_isolate on, the registry's token under the host hash;
\* otherwise the default token, the registry left as it was and never
\* locked.
C9_TokenSelection ==
    [][\A s \in Sessions :
         pc[s] \in {"select", "locked"} /\ pc'[s] = "connect" =>
            IF cred_hash[s] # NoCred
            THEN /\ cred_hash[s] \in DOMAIN isolation_map'
                 /\ stream_token'[s] = isolation_map'[cred_hash[s]]
            ELSE IF auto_isolate
            THEN /\ HostHash(host[s]) \in DOMAIN isolation_map'
                 /\ stream_token'[s] = isolation_map'[HostHash(host[s])]
            ELSE /\ stream_token'[s] = DefaultToken
                 /\ isolation_map' = isolation_map
                 /\ other_entries' = other_entries
                 /\ registry_locks'[s] = 0]_vars

\* C9 witness: with auto_isolate on, a session with credentials waits for
\* the overlay with the registry's token of its credential hash.
C9_Witness ==
    \E s \in Sessions :
        /\ pc[s] = "connect"
        /\ auto_isolate
        /\ cred_hash[s] # NoCred
        /\ cred_hash[s] \in DOMAIN isolation_map
        /\ stream_token[s] = isolation_map[cred_hash[s]]
        /\ stream_token[s] # DefaultToken

\* C10 as claimed (handshake budget): no session is waiting for the overlay
\* connect once HANDSHAKE_TIMEOUT seconds have passed since its start.
C10_HandshakeBudget ==
    \A s \in Sessions :
        pc[s] = "connect" => elapsed[s] <= HANDSHAKE_TIMEOUT

\* C11 (stalled handshake): a session waiting on its client inside the
\* handshake eventually is closed or has a complete request; a session
\* whose timer expired was waiting at an await with 10 s gone, gets nothing
\* written by the expiry itself, then at most the generic failure reply,
\* never selects a token or calls the overlay, and eventually is closed.
C11_StalledHandshake ==
    /\ \A s \in Sessions :
         (pc[s] \in HandshakeAwaits) ~>
             (pc[s] = "closed" \/ handshake_result[s] = "ok")
    /\ \A s \in Sessions :
         (handshake_result[s] = "elapsed") ~> (pc[s] = "closed")
    /\ [][\A s \in Sessions :
           /\ handshake_result[s] # "elapsed"
              /\ handshake_result'[s] = "elapsed" =>
                 /\ pc[s] \in HandshakeAwaits
                 /\ elapsed[s] >= 10
                 /\ out'[s] = out[s]
                 /\ pc'[s] = "fail_reply"
           /\ handshake_result[s] = "elapsed" =>
                 /\ pc'[s] \in {"fail_reply", "closed"}
                 /\ out'[s] \in {out[s],
                                 out[s] \o <<5, 1, 0, 1, 0, 0, 0, 0, 0, 0>>}
                 /\ connects'[s] = 0
                 /\ registry_locks'[s] = 0
                 /\ stream_token'[s] = NoToken]_vars

\* C11 witness: the client stopped after the sub-negotiation, the timer
\* expired, the failure reply is about to be written.
C11_Witness ==
    \E s \in Sessions :
        /\ pc[s] = "fail_reply"
        /\ handshake_result[s] = "elapsed"
        /\ out[s] = <<5, 2, 1, 0>>

\* C12 as claimed (address types): a CONNECT request whose ATYP is 0x01,
\* 0x03 or 0x04 is not rejected where the address type is matched.
C12_AddressTypes ==
    [][\A s \in Sessions :
         pc[s] = "match_addr_type" /\ addr_type[s] \in {1, 3, 4} =>
             pc'[s] # "fail_reply"]_vars

\* The client has received the success reply as the last thing written.
HasSuccessReply(s) ==
    /\ Len(out[s]) >= 10
    /\ SubSeq(out[s], Len(out[s]) - 9, Len(out[s]))
         = <<5, 0, 0, 1, 0, 0, 0, 0, 0, 0>>

\* What C13 says of the overlay connect and of the success reply: at most
\* one connect call, made only with a complete request, for the host and
\* port parsed; a success reply in the client's hands only with the connect
\* returned Ok.
ConnectOrdering(s) ==
    /\ connects[s] <= 1
    /\ connects[s] = 1 =>
         /\ handshake_result[s] = "ok"
         /\ tor_target[s] # << >>
         /\ pc[s] \in {"connect", "write_success", "relaying", "fail_reply"}
    /\ pc[s] \in {"write_success", "relaying"} =>
         connects[s] = 1 /\ tor_stream_result[s] = "ok"
    /\ HasSuccessReply(s) /\ pc[s] # "closed" =>
         pc[s] = "relaying" /\ tor_stream_result[s] = "ok"

\* C13 as claimed (strict step ordering): the connect call and the success
\* reply are ordered as above, and a session that relays has written the
\* success reply to its client.
C13_StrictOrdering ==
    \A s \in Sessions :
        /\ ConnectOrdering(s)
        /\ pc[s] = "relaying" => HasSuccessReply(s)

\* C13 as amended: the connect call and the success reply are ordered as
\* above, and a session starts to relay only by the step in which the write
\* of the success reply returns, with the reply written or, the write
\* having failed, with nothing written; while it relays nothing more of the
\* negotiation is written.
C13_StrictOrderingOfSteps ==
    /\ [](\A s \in Sessions : ConnectOrdering(s))
    /\ [][\A s \in Sessions :
           /\ pc[s] # "relaying" /\ pc'[s] = "relaying" =>
                /\ pc[s] = "write_success"
                /\ tor_stream_result[s] = "ok"
                /\ out'[s] \in {out[s],
                                out[s] \o <<5, 0, 0, 1, 0, 0, 0, 0, 0, 0>>}
           /\ pc[s] = "relaying" => out'[s] = out[s]]_vars

\* C13 witness: a session relays after one connect call that returned Ok,
\* the success reply written.
C13_Witness ==
    \E s \in Sessions :
        /\ pc[s] = "relaying"
        /\ HasSuccessReply(s)
        /\ connects[s] = 1
        /\ tor_stream_result[s] = "ok"

\* A buffer holds zeros only.
AllZero(b) == \A i \in 1 .. Len(b) : b[i] = 0

\* C16 as claimed (session secret hygiene): when the handshake future ends
\* in an error or is cancelled by the timer, the buffers of the user name,
\* the password, the address and the domain name it releases hold zeros
\* only; and when the task ends, the host string is empty.
C16_SecretsZeroedAtRelease ==
    [][\A s \in Sessions :
         /\ handshake_result[s] = "pending"
            /\ handshake_result'[s] \in {"error", "elapsed"} =>
               /\ AllZero(uname[s])
               /\ AllZero(passwd[s])
               /\ AllZero(addr[s])
               /\ AllZero(domain_bytes[s])
         /\ pc[s] # "closed" /\ pc'[s] = "closed" => host[s] = << >>]_vars

\* C18 (registry lock discipline): the session that owns the registry lock
\* is between lock() and the end of the match arm, where nothing is
\* awaited; a session waiting on its client, on the overlay or on the timer
\* does not own the lock.
C18_LockDiscipline ==
    \A s \in Sessions :
        /\ lock_owner = s => pc[s] = "locked"
        /\ pc[s] \in HandshakeAwaits
                     \cup {"connect", "write_success", "relaying",
                           "fail_reply"} => lock_owner # s

\* C18 witness: a session waits for the overlay, having used the registry,
\* while another session owns the lock.
C18_Witness ==
    \E s, t \in Sessions :
        /\ pc[s] = "connect"
        /\ registry_locks[s] = 1
        /\ lock_owner = t
        /\ pc[t] = "locked"

\* Everything a session's task owns.
SessionState(t) ==
    <<pc[t], elapsed[t], out[t], nmethods[t], methods[t], auth_method[t],
      ulen[t], uname[t], plen[t], passwd[t], presented[t], cred_hash[t],
      addr_type[t], addr[t], dlen[t], domain_bytes[t], host[t], port[t],
      handshake_result[t], stream_token[t], tor_stream_result[t],
      registry_locks[t], connects[t], tor_target[t], lookup_epoch[t]>>

\* C19 (failure containment): a step by which a connection fails or ends
\* (TLS accept failure, handshake error or timeout, overlay connect
\* failure, end of the relay) leaves the accept loop running if it was,
\* and leaves every other session and the registry as they were.
C19_FailureContainment ==
    [][\A s \in Sessions :
         pc'[s] # pc[s] /\ pc'[s] \in {"fail_reply", "closed"} =>
            /\ listening' = listening
            /\ \A t \in Sessions \ {s} : SessionState(t)' = SessionState(t)
            /\ isolation_map' = isolation_map
            /\ other_entries' = other_entries
            /\ lock_owner' = lock_owner]_vars

\* C19 witness: one connection has failed and got the failure reply, the
\* loop still runs, and another connection is past its handshake.
C19_Witness ==
    \E s, t \in Sessions :
        /\ pc[s] = "closed"
        /\ out[s] = <<5, 1, 0, 1, 0, 0, 0, 0, 0, 0>>
        /\ listening
        /\ pc[t] = "relaying"

\* C14 as claimed (splice termination): once a copy direction has returned,
\* by EOF or by an error, the session is closed and the other direction
\* runs no more.
C14_SpliceTermination ==
    \A d \in Dirs :
        copy_pc[d] \in {"returned_ok", "returned_err"} =>
            /\ pc[1] = "closed"
            /\ copy_pc[Other(d)] \notin {"read", "write"}

\* a is a prefix of b.
IsPrefix(a, b) == Len(a) <= Len(b) /\ a = SubSeq(b, 1, Len(a))

C17_RelayBufferZeroResidue ==
    \A d \in Dirs :
        copy_pc[d] \in {"read", "returned_ok", "returned_err", "dropped"} =>
            AllZero(buf[d])

\* C20 as claimed (self-check mode): a process started with --selfcheck
\* whose bootstrap succeeded spawns no service task, and when it has exited
\* its status is 0.
C20_SelfCheckExitsZero ==
    selfcheck /\ main_pc \in {"selfcheck_connect", "exited"}
              /\ (main_pc = "exited" => probe_result # "none") =>
        /\ spawned = {}
        /\ main_pc = "exited" => exit_code = 0

\* C20 as amended: a process started with --selfcheck spawns no service
\* task; once its bootstrap succeeded it connects to 1.1.1.1:53 through the
\* overlay and exits with status 0 if that connect succeeded and with
\* status 1 if it failed.
C20_SelfCheckExitsByProbe ==
    selfcheck =>
        /\ spawned = {}
        /\ ~listening
        /\ main_pc \notin {"spawn_socks", "spawn_dns", "spawn_chaff",
                           "wait_signal"}
        /\ probe_result # "none" => main_pc = "exited"
        /\ probe_result = "ok" => exit_code = 0
        /\ probe_result = "err" => exit_code = 1
        /\ exit_code = 0 => probe_result = "ok"

\* C20 witness: a self-check whose connect succeeded has exited with 0.
C20_Witness ==
    /\ selfcheck
    /\ main_pc = "exited"
    /\ probe_result = "ok"
    /\ exit_code = 0
    /\ spawned = {}

\* C21 (startup gating): a service task is spawned only after the overlay
\* bootstrap returned Ok; in strict mode the bootstrap is reached or
\* attempted only after apply_protections returned Ok and the effective uid
\* was found not to be 0; and once a start-up step has failed the process
\* has ended abnormally with no service spawned.
C21_StartupGating ==
    /\ spawned # {} => step_result["bootstrap"] = "ok"
    /\ strict_mode /\ (main_pc = "bootstrap"
                        \/ step_result["bootstrap"] # "none") =>
          /\ step_result["harden"] = "ok"
          /\ step_result["nonroot"] = "ok"
          /\ ~euid_root
    /\ (\E k \in StartupSteps : step_result[k] = "err") =>
          /\ main_pc = "exited"
          /\ exit_code \in {ExitErr, ExitPanic}
          /\ spawned = {}

\* C21 witness: in strict mode, hardened and not root, the bootstrap failed
\* and the process ended without a service.
C21_Witness ==
    /\ strict_mode
    /\ step_result["harden"] = "ok"
    /\ step_result["bootstrap"] = "err"
    /\ main_pc = "exited"
    /\ spawned = {}

\* C22 as claimed (DNS round-trip): once the connection has ended without
\* an I/O error, whatever frame the resolver produced for a well-formed
\* query of 1 to 4096 bytes is what the client has been written, byte for
\* byte.
C22_DnsRoundTrip ==
    dns.pc \in {"done", "err"} /\ dns.produced # << >> /\ ~dns.io_failed =>
        dns.client_out = dns.produced

\* C22 (DNS round-trip of relayed frames): the client is never written
\* anything but a prefix of the frame the resolver produced, and the resolver
\* nothing but a prefix of the client's frame; a connection that returns Ok
\* had a query and a response of 1 to 4096 bytes and has written the client
\* the whole frame, length prefix and body; a response announcing 0 or more
\* than 4096 bytes leaves the client with nothing.
C22_DnsRoundTripWithinLimit ==
    /\ IsPrefix(dns.client_out, dns.produced)
    /\ IsPrefix(dns.tor_out, dns.query)
    /\ dns.pc = "done" =>
          /\ dns.msg_len \in 1 .. MAX_DNS_MSG
          /\ dns.resp_len \in 1 .. MAX_DNS_MSG
          /\ dns.tor_out = dns.query
          /\ dns.client_out = dns.produced
          /\ dns.client_out = ToBeBytes(dns.resp_len) \o dns.resp
    /\ dns.produced # << >> /\ dns.resp_len \notin 1 .. MAX_DNS_MSG =>
          dns.client_out = << >>

\* C22 witness: a response of the largest relayed length has been written
\* back whole.
C22_Witness ==
    /\ dns.pc = "done"
    /\ dns.msg_len = 1
    /\ dns.resp_len = MAX_DNS_MSG
    /\ Len(dns.client_out) = MAX_DNS_MSG + 2
    /\ dns.client_out = dns.produced

\* The resolver answered with 4097 bytes and the connection has ended.
DnsOversizedResponse ==
    /\ dns.pc = "err"
    /\ ~dns.io_failed
    /\ dns.msg_len \in 1 .. MAX_DNS_MSG
    /\ Len(dns.produced) = MAX_DNS_MSG + 3
    /\ dns.client_out = << >>

\* C23 as claimed (lookup of a present key): a get-or-insert for a key that
\* is in the registry hands the session the stored token and leaves the
\* registry as it was, whatever the size of the registry.
C23_PresentKeyLookup ==
    [][\A s \in Sessions :
         /\ pc[s] = "locked" /\ pc'[s] = "connect"
         /\ KeyOfLookup(s) \in DOMAIN isolation_map
         => /\ stream_token'[s] = isolation_map[KeyOfLookup(s)]
            /\ isolation_map' = isolation_map
            /\ other_entries' = other_entries]_vars

\* A session holds the lock and its key is present in a registry of more
\* than MAX_ISOLATION_ENTRIES entries.
PresentKeyInOverfullRegistry ==
    \E s \in Sessions :
        /\ pc[s] = "locked"
        /\ KeyOfLookup(s) \in DOMAIN isolation_map
        /\ RegistryLen > MAX_ISOLATION_ENTRIES

\* C24 as claimed (relay I/O errors close the session): a direction whose
\* read or write failed has returned an error, its sibling runs no more and
\* the session is closed; and once a write of a direction has failed, the
\* direction reads nothing more from its source and passes nothing more to
\* its destination.
C24_RelayErrorsClose ==
    [][\A d \in Dirs :
         /\ copy_pc'[d] = "returned_err" =>
               /\ pc'[1] = "closed"
               /\ copy_pc'[Other(d)] \notin {"read", "write"}
         /\ ~writer_ok'[d] => copy_pc'[d] = "returned_err"
         /\ ~writer_ok[d] => taken'[d] = taken[d] /\ dst'[d] = dst[d]]_vars

\* A direction reads on from its source after one of its writes failed.
ReadsOnAfterFailedWrite ==
    \E d \in Dirs :
        /\ ~writer_ok[d]
        /\ copy_pc[d] = "write"
        /\ pc[1] = "relaying"
        /\ Len(taken[d]) > Len(dst[d]) + nread[d]

\* C25 (atomic get-or-insert under concurrency): as long as the registry
\* has not been cleared, in every interleaving of the sessions, all sessions
\* of one isolation key hand the overlay the same token, which is the one
\* stored under the key, and the tokens created are as many as the keys
\* entered: one per key, however many sessions looked it up.
C25_AtomicGetOrInsert ==
    clears = 0 =>
        /\ \A s, t \in Sessions :
              /\ HoldsToken(s) /\ HoldsToken(t)
              /\ KeyOf(s) # NoKey /\ KeyOf(s) = KeyOf(t)
              => /\ KeyOf(s) \in DOMAIN isolation_map
                 /\ stream_token[s] = isolation_map[KeyOf(s)]
                 /\ stream_token[t] = stream_token[s]
        /\ next_token - (other_entries + 1) = Cardinality(DOMAIN isolation_map)

\* C25 witness: two sessions that went through token selection with the
\* same key, absent at first, both wait for the overlay connect with the one
\* token created.
C25_Witness ==
    \E s, t \in Sessions :
        /\ s # t
        /\ pc[s] = "connect" /\ pc[t] = "connect"
        /\ KeyOf(s) # NoKey /\ KeyOf(s) = KeyOf(t)
        /\ clears = 0
        /\ next_token = other_entries + 2
        /\ stream_token[s] = stream_token[t]
        /\ stream_token[s] = other_entries + 1

\* Two sessions of one key, absent from the registry, are at token
\* selection together: one holds the lock, the other waits for it.
ConcurrentSelection ==
    \E s, t \in Sessions :
        /\ pc[s] = "locked" /\ pc[t] = "select"
        /\ KeyOfLookup(s) = KeyOfLookup(t)
        /\ cred_hash[s] # NoCred /\ cred_hash[t] # NoCred
        /\ KeyOfLookup(s) \notin DOMAIN isolation_map
        /\ clears = 0

\* The client has received the failure reply as the last thing written.
HasFailureReply(s) ==
    /\ Len(out[s]) >= 10
    /\ SubSeq(out[s], Len(out[s]) - 9, Len(out[s]))
         = <<5, 1, 0, 1, 0, 0, 0, 0, 0, 0>>

\* C26 (one final reply per session): what a session has written its client
\* is always the replies of the negotiation followed by nothing, by the
\* success reply alone or by the failure reply alone; and a session whose
\* client holds the failure reply calls the overlay connect no more, does
\* not go on to the success reply or the relay, and writes nothing more.
C26_OneFinalReply ==
    [][\A s \in Sessions :
         /\ \E p \in NegotiationReplies :
               out'[s] \in {p,
                            p \o <<5, 0, 0, 1, 0, 0, 0, 0, 0, 0>>,
                            p \o <<5, 1, 0, 1, 0, 0, 0, 0, 0, 0>>}
         /\ HasFailureReply(s) =>
               /\ connects'[s] = connects[s]
               /\ pc'[s] \notin {"select", "locked", "connect",
                                  "write_success", "relaying"}
               /\ out'[s] = out[s]]_vars

\* C26 witness: a session that had selected method 0x00 has written the
\* failure reply as its only 10-byte reply and has ended.
C26_Witness ==
    \E s \in Sessions :
        /\ pc[s] = "closed"
        /\ out[s] = <<5, 0, 5, 1, 0, 1, 0, 0, 0, 0, 0, 0>>

====
